---- MODULE Spec2Model ----
(***************************************************************************)
(* Verdict server: the transcription adapter (transcribeAudio and its      *)
(* retryWithBackoff loop), the analysis adapter (analyzeConflict and       *)
(* createAnalysisStream), the in-memory session store (MemStorage) and the *)
(* HTTP handler that ties them together.                                   *)
(*                                                                         *)
(* JavaScript strings are TLA+ strings: concatenation is \o and            *)
(* String.prototype.includes is a substring search, so that the checks     *)
(* the code makes on error messages are decided by the messages' text.     *)
(* Every async function is cut at its awaits: one action per stretch of    *)
(* synchronous code, the catch and finally blocks that a throw runs        *)
(* through included.                                                       *)
(***************************************************************************)
EXTENDS Integers, Sequences, FiniteSets, TLC

VARIABLES
    now,        \* the wall clock, as read by Date.now() and new Date()
    files,      \* the temp directory: path -> size in bytes
    pending,    \* fs.unlink calls issued and not yet carried out: path -> count
    tr,         \* the transcribeAudio calls: call -> its locals and position
    an,         \* the analysis calls: call -> its locals and position
    sessions,   \* MemStorage.sessions: id -> Session
    currentId,  \* MemStorage.currentId
    lastOp,     \* the storage call made last by a direct caller, and its outcome
    held,       \* the Session objects createSession returned: id -> what its caller holds
    req,        \* the HTTP requests: request -> its locals and position
    subs,       \* the subscriptions table: email -> row
    isDevelopment   \* process.env.NODE_ENV === 'development'

storeVars == <<sessions, currentId, lastOp, held>>
serverVars == <<req, subs, isDevelopment>>
vars == <<now, files, pending, tr, an, sessions, currentId, lastOp, held, req, subs, isDevelopment>>

-----------------------------------------------------------------------------
(* Bounds of the model *)

\* The clock runs from 0 to MaxNow milliseconds.
MaxNow == 2
\* A text stream yields at most MaxChunks chunks.
MaxChunks == 2
\* Direct callers of the store create at most MaxSessions sessions.
MaxSessions == 2

-----------------------------------------------------------------------------
(* JavaScript values *)

\* null and undefined: two values no string of the program equals.
Null == "<null>"
Undefined == "<undefined>"

\* true and false where they sit among strings (a request body, a session)
True == "<true>"
False == "<false>"

\* if (x), !x, x || y, x ? a : b on a string, a boolean, null or undefined
Truthy(x) == x # Null /\ x # Undefined /\ x # "" /\ x # False

\* obj.f, for an object held as a record: undefined when it has no such property
Field(obj, f) == IF f \in DOMAIN obj THEN obj[f] ELSE Undefined

\* a ?? b
Coalesce(a, b) == IF a = Null \/ a = Undefined THEN b ELSE a

\* s.includes(needle)
Includes(s, needle) ==
    \E k \in 1..(Len(s) - Len(needle) + 1) :
        SubSeq(s, k, k + Len(needle) - 1) = needle

\* a || b
OrElse(a, b) == IF Truthy(a) THEN a ELSE b

\* String(n) for the numbers the clock takes
NumStr(n) == <<"0", "1", "2", "3", "4", "5", "6", "7", "8", "9">>[n + 1]

\* new Date().toISOString()
ToISOString(t) == "1970-01-01T00:00:00.00" \o NumStr(t) \o "Z"

\* A map held as a function: m with key k set to v, and m without key k.
MapSet(m, k, v) == (k :> v) @@ m
MapDelete(m, k) == [x \in (DOMAIN m) \ {k} |-> m[x]]

\* The clock never runs backwards; between two reads it may have advanced.
Later == {t \in now..MaxNow : t <= now + 1}

-----------------------------------------------------------------------------
(* The transcription adapter: transcribeAudio and retryWithBackoff *)

\* The two transcribeAudio calls a request can make (partner 1, partner 2).
TCalls == {1, 2}

\* retryWithBackoff's default parameters
MaxRetries == 3
InitialDelay == 1000

\* duration < 0.1, in milliseconds
MinDurationMs == 100

\* parseFloat of text that is no number
NaN == -1

\* audioBase64 as the handler passes it: missing from the body, empty, padding
\* only (decodes to no byte), and a payload of three bytes.
AudioInputs == {Undefined, "", "====", "QUJD"}

\* Buffer.from(s, 'base64').length: decoding stops at the first padding
\* character, and every four characters before it give three bytes.
Base64Length(s) ==
    LET pads == {k \in 1..Len(s) : SubSeq(s, k, k) = "="}
        n    == IF pads = {} THEN Len(s)
                ELSE (CHOOSE k \in pads : \A j \in pads : k <= j) - 1
    IN  (n * 6) \div 8

\* path.join(tmpdir(), `audio-${Date.now()}.${ext}`)
TempPath(t, ext) == "/tmp/audio-" \o NumStr(t) \o "." \o ext

\* What ffprobe prints for format=duration
ProbeOutputs == {"0.000000", "0.050000", "0.100000", "1.500000", "N/A", ""}

\* parseFloat(stdout.trim()), in milliseconds
ParseFloatMs(s) ==
    CASE s = "0.000000" -> 0
      [] s = "0.050000" -> 50
      [] s = "0.100000" -> 100
      [] s = "1.500000" -> 1500
      [] OTHER -> NaN

\* a < b on numbers: every comparison with NaN is false
NumLess(a, b) == a # NaN /\ b # NaN /\ a < b

\* (mutant) only a zero duration is rejected
DurationTooShort_ZeroOnly(duration) == duration = 0

\* if (duration < 0.1)
DurationTooShort(duration) == NumLess(duration, MinDurationMs)

TooShortMsg == "Audio recording is too short. Please record for at least 1-2 seconds."
QuotaMsg == "OpenAI API quota exceeded. Please check your billing status and ensure you have available credits."

\* What the speech-to-text endpoint can answer to one upload. rejects: fetch
\* itself fails; otherwise an HTTP response with its body.
Responses == {
    [name |-> "ok", rejects |-> FALSE, ok |-> TRUE, status |-> "200", isJson |-> TRUE,
     errType |-> Undefined, errMessage |-> Undefined, raw |-> "{\"text\":\"hello\"}",
     text |-> "hello", segments |-> Undefined],
    [name |-> "okSegments", rejects |-> FALSE, ok |-> TRUE, status |-> "200", isJson |-> TRUE,
     errType |-> Undefined, errMessage |-> Undefined, raw |-> "{\"text\":\"hi\",\"segments\":[]}",
     text |-> "hi", segments |-> "[]"],
    [name |-> "okNoText", rejects |-> FALSE, ok |-> TRUE, status |-> "200", isJson |-> TRUE,
     errType |-> Undefined, errMessage |-> Undefined, raw |-> "{\"text\":\"\"}",
     text |-> "", segments |-> Undefined],
    [name |-> "quota", rejects |-> FALSE, ok |-> FALSE, status |-> "429", isJson |-> TRUE,
     errType |-> "insufficient_quota", errMessage |-> "You exceeded your current quota",
     raw |-> "{\"error\":{\"message\":\"You exceeded your current quota\",\"type\":\"insufficient_quota\"}}",
     text |-> Undefined, segments |-> Undefined],
    [name |-> "serverError", rejects |-> FALSE, ok |-> FALSE, status |-> "500", isJson |-> TRUE,
     errType |-> "server_error", errMessage |-> "The server had an error",
     raw |-> "{\"error\":{\"message\":\"The server had an error\",\"type\":\"server_error\"}}",
     text |-> Undefined, segments |-> Undefined],
    [name |-> "noMessage", rejects |-> FALSE, ok |-> FALSE, status |-> "400", isJson |-> TRUE,
     errType |-> Undefined, errMessage |-> Undefined, raw |-> "{}",
     text |-> Undefined, segments |-> Undefined],
    [name |-> "badGateway", rejects |-> FALSE, ok |-> FALSE, status |-> "502", isJson |-> FALSE,
     errType |-> Undefined, errMessage |-> Undefined, raw |-> "Bad Gateway",
     text |-> Undefined, segments |-> Undefined],
    [name |-> "networkDown", rejects |-> TRUE, ok |-> FALSE, status |-> Undefined, isJson |-> FALSE,
     errType |-> Undefined, errMessage |-> Undefined, raw |-> "fetch failed",
     text |-> Undefined, segments |-> Undefined] }

\* The response of the given name
ResponseNamed(n) == CHOOSE r \in Responses : r.name = n

\* A quota-exhaustion response: an HTTP error whose body has
\* error.type = insufficient_quota
IsQuotaResponse(n) ==
    LET r == ResponseNamed(n)
    IN  ~r.rejects /\ ~r.ok /\ r.isJson /\ r.errType = "insufficient_quota"

\* JSON.stringify({text, segments, words}): an undefined property is left out
StringifyTranscription(text, segments) ==
    "{\"text\":\"" \o text \o "\""
        \o (IF segments # Undefined THEN ",\"segments\":" \o segments ELSE "")
        \o "}"

\* The message JSON.parse throws on text that is no JSON
SyntaxErrorMsg(text) == "Unexpected token in JSON at position 0"

\* if (!response.ok) { ... }: the error the upload throws for an HTTP error
HttpErrorMsg(r) ==
    LET errorText == r.raw
        fallback  == "OpenAI API error: " \o r.status \o " " \o errorText
        \* the error thrown inside the inner try
        e == IF ~r.isJson THEN SyntaxErrorMsg(errorText)
             ELSE IF r.errType = "insufficient_quota" THEN QuotaMsg
             ELSE "OpenAI API error: " \o OrElse(r.errMessage, errorText)
    IN  IF Includes(e, "quota") THEN e ELSE fallback

\* The operation handed to retryWithBackoff, from the fetch on: what it
\* returns (ok) or throws for response r.
UploadOutcome(r) ==
    IF r.rejects THEN [ok |-> FALSE, value |-> r.raw]
    ELSE IF ~r.ok THEN [ok |-> FALSE, value |-> HttpErrorMsg(r)]
    ELSE IF ~Truthy(r.text) THEN [ok |-> FALSE, value |-> "No transcription received from API"]
    ELSE [ok |-> TRUE, value |-> StringifyTranscription(r.text, r.segments)]

\* The locals of a call that has not started
TIdle ==
    [pc |-> "idle", audio |-> Undefined, tempFile |-> Null, wavFile |-> Null,
     duration |-> NaN, i |-> 0, lastError |-> Undefined, netCalls |-> 0,
     log |-> <<>>, sleeps |-> <<>>, unlinks |-> <<>>,
     result |-> Null, error |-> Null]

\* if (tempFile) fs.unlink(tempFile, ...); if (wavFile) fs.unlink(wavFile, ...)
CleanupPaths(c) ==
    (IF Truthy(c.tempFile) THEN <<c.tempFile>> ELSE <<>>)
        \o (IF Truthy(c.wavFile) THEN <<c.wavFile>> ELSE <<>>)

\* A throw inside the try: the catch block unlinks and rethrows, then the
\* finally block unlinks again.
TThrow(c, msg) ==
    [c EXCEPT !.pc = "thrown", !.error = msg,
              !.unlinks = @ \o CleanupPaths(c) \o CleanupPaths(c)]

\* (mutant) the cleanup is left to the catch block: a return unlinks nothing
TReturn_NoFinally(c, value) ==
    [c EXCEPT !.pc = "returned", !.result = value]

\* return inside the try: the finally block unlinks.
TReturn(c, value) ==
    [c EXCEPT !.pc = "returned", !.result = value,
              !.unlinks = @ \o CleanupPaths(c)]

\* The unlink calls the step from c to d has issued, added to those pending
IssueUnlinks(c, d) ==
    LET new == SubSeq(d.unlinks, Len(c.unlinks) + 1, Len(d.unlinks))
        count(p) == Cardinality({k \in 1..Len(new) : new[k] = p})
        paths == {new[k] : k \in 1..Len(new)}
    IN  [p \in paths \cup DOMAIN pending |->
            (IF p \in DOMAIN pending THEN pending[p] ELSE 0) + count(p)]

\* (mutant) one attempt too many
LoopContinues_OffByOne(i) == i <= MaxRetries

\* for (...; i < maxRetries; ...)
LoopContinues(i) == i < MaxRetries

\* (mutant) the delay grows by InitialDelay with every attempt
RetryCatch_Linear(c, e) ==
    LET d == [c EXCEPT !.lastError = e]
    IN  IF Includes(e, "insufficient_quota") THEN TThrow(d, e)
        ELSE [d EXCEPT !.pc = "sleep",
                       !.sleeps = Append(@, InitialDelay * (c.i + 1))]

\* retryWithBackoff's catch block, attempt c.i having thrown e
RetryCatch(c, e) ==
    LET d == [c EXCEPT !.lastError = e]
    IN  IF Includes(e, "insufficient_quota") THEN TThrow(d, e)
        ELSE [d EXCEPT !.pc = "sleep",
                       !.sleeps = Append(@, InitialDelay * (2 ^ c.i))]

\* The step of call c to d: the unlinks d has issued become pending.
TStep(c, d) ==
    /\ tr' = [tr EXCEPT ![c] = d]
    /\ pending' = IssueUnlinks(tr[c], d)

\* transcribeAudio(audio), up to its first await (writeFile)
T_Begin(c, audio) ==
    /\ tr[c].pc = "idle"
    /\ IF ~Truthy(audio)
       THEN /\ TStep(c, TThrow([tr[c] EXCEPT !.audio = audio], "No audio data provided"))
            /\ UNCHANGED now
       ELSE \E t1 \in Later :
              \E t2 \in {t \in t1..MaxNow : t <= t1 + 1} :
                /\ now' = t2
                /\ TStep(c, [tr[c] EXCEPT !.audio = audio,
                                          !.tempFile = TempPath(t1, "webm"),
                                          !.wavFile = TempPath(t2, "wav"),
                                          !.pc = "writeFile"])
    /\ UNCHANGED <<files, an, storeVars, serverVars>>

\* await writeFile(tempFile, audioBuffer), then stat is issued
T_WriteFileDone(c) ==
    /\ tr[c].pc = "writeFile"
    /\ \/ /\ files' = MapSet(files, tr[c].tempFile, Base64Length(tr[c].audio))
          /\ TStep(c, [tr[c] EXCEPT !.pc = "stat"])
       \/ /\ TStep(c, TThrow(tr[c], "ENOSPC: no space left on device, write"))
          /\ UNCHANGED files
    /\ UNCHANGED <<now, an, storeVars, serverVars>>

\* await fs.promises.stat(tempFile); if (stats.size === 0) throw; ffmpeg is started
T_StatDone(c) ==
    /\ tr[c].pc = "stat"
    /\ TStep(c, IF tr[c].tempFile \notin DOMAIN files
                THEN TThrow(tr[c], "ENOENT: no such file or directory, stat")
                ELSE IF files[tr[c].tempFile] = 0
                THEN TThrow(tr[c], "Audio file is empty")
                ELSE [tr[c] EXCEPT !.pc = "ffmpeg"])
    /\ UNCHANGED <<now, files, an, storeVars, serverVars>>

\* await exec(ffmpeg ...): it writes the WAV file or fails
T_FfmpegDone(c) ==
    /\ tr[c].pc = "ffmpeg"
    /\ \/ /\ tr[c].tempFile \in DOMAIN files
          /\ files' = MapSet(files, tr[c].wavFile, 2 * files[tr[c].tempFile])
          /\ TStep(c, [tr[c] EXCEPT !.pc = "wavStat"])
       \/ /\ TStep(c, TThrow(tr[c], "Failed to convert audio format: " \o "Command failed: ffmpeg"))
          /\ UNCHANGED files
    /\ UNCHANGED <<now, an, storeVars, serverVars>>

\* await fs.promises.stat(wavFile), inside the conversion's try; ffprobe is started
T_WavStatDone(c) ==
    /\ tr[c].pc = "wavStat"
    /\ TStep(c, IF tr[c].wavFile \notin DOMAIN files
                THEN TThrow(tr[c], "Failed to convert audio format: "
                                      \o "ENOENT: no such file or directory, stat")
                ELSE [tr[c] EXCEPT !.pc = "ffprobe"])
    /\ UNCHANGED <<now, files, an, storeVars, serverVars>>

\* await exec(ffprobe ...); the duration check; retryWithBackoff starts the
\* first attempt, which awaits readFile
T_FfprobeDone(c) ==
    /\ tr[c].pc = "ffprobe"
    /\ \/ \E out \in ProbeOutputs :
            LET duration == ParseFloatMs(out)
                d == [tr[c] EXCEPT !.duration = duration]
            IN  TStep(c, IF DurationTooShort(duration)
                         THEN TThrow(d, "Failed to verify audio duration: " \o TooShortMsg)
                         ELSE [d EXCEPT !.pc = "readFile", !.i = 0])
       \/ TStep(c, TThrow(tr[c], "Failed to verify audio duration: " \o "Command failed: ffprobe"))
    /\ UNCHANGED <<now, files, an, storeVars, serverVars>>

\* await fs.promises.readFile(wavFile): the upload is sent, or the attempt fails
T_ReadFileDone(c) ==
    /\ tr[c].pc = "readFile"
    /\ \/ /\ tr[c].wavFile \in DOMAIN files
          /\ TStep(c, [tr[c] EXCEPT !.pc = "fetch", !.netCalls = @ + 1])
       \/ TStep(c, RetryCatch([tr[c] EXCEPT !.log = Append(@, "readFileFailed")],
                              IF tr[c].wavFile \in DOMAIN files
                              THEN "EIO: i/o error, read"
                              ELSE "ENOENT: no such file or directory, open"))
    /\ UNCHANGED <<now, files, an, storeVars, serverVars>>

\* await fetch(...) and the reading of the response: the attempt returns or throws
T_FetchDone(c, r) ==
    /\ tr[c].pc = "fetch"
    /\ LET out == UploadOutcome(r)
           d   == [tr[c] EXCEPT !.log = Append(@, r.name)]
       IN  TStep(c, IF out.ok THEN TReturn(d, out.value) ELSE RetryCatch(d, out.value))
    /\ UNCHANGED <<now, files, an, storeVars, serverVars>>

\* await sleep(...): i++, then the next attempt, or throw lastError after the loop
T_SleepDone(c) ==
    /\ tr[c].pc = "sleep"
    /\ LET d == [tr[c] EXCEPT !.i = @ + 1]
       IN  TStep(c, IF LoopContinues(d.i) THEN [d EXCEPT !.pc = "readFile"]
                    ELSE TThrow(d, d.lastError))
    /\ UNCHANGED <<now, files, an, storeVars, serverVars>>

\* One pending fs.unlink is carried out (a missing file is ignored).
UnlinkDone(p) ==
    /\ p \in DOMAIN pending
    /\ pending' = IF pending[p] = 1 THEN MapDelete(pending, p)
                  ELSE [pending EXCEPT ![p] = @ - 1]
    /\ files' = MapDelete(files, p)
    /\ UNCHANGED <<now, tr, an, storeVars, serverVars>>

\* Time passes.
Tick ==
    /\ now < MaxNow
    /\ now' = now + 1
    /\ UNCHANGED <<files, pending, tr, an, storeVars, serverVars>>

-----------------------------------------------------------------------------
(* The prompt builder and the analysis adapter: ai.ts *)

Modes == {"evaluator", "counselor", "dinner", "entertainment"}

\* `${x}` in a template literal
ToStr(x) == IF x = Undefined THEN "undefined" ELSE IF x = Null THEN "null" ELSE x

\* (mutant) one general prompt for the two relationship modes
SYSTEM_PROMPTS_General(mode) ==
    CASE mode \in {"evaluator", "counselor"} -> "You are a direct and decisive relationship analyst. You will analyze disagreements between two partners. Start with a clear verdict, then provide actionable communication advice. Keep responses under 150 words."
      [] mode = "dinner" -> "You are a decisive meal planning assistant. Keep responses under 150 words."
      [] mode = "entertainment" -> "You are a decisive entertainment recommender. Keep responses under 150 words."
      [] OTHER -> Undefined

SYSTEM_PROMPTS(mode) ==
    CASE mode = "evaluator" -> "You are a debate judge and arbiter that will listen to a relationship argument between two partners, then pick the winner based on who you think is right and wrong. You must always pick a clear winner. Your response should start with the name of the person who is right, and explain why that is the case. Be concise, keeping responses under 150 words."
      [] mode = "counselor" -> "You are a relationship counselor that will listen to the perspective of the two speakers and think deeply to mediate and resolve any argument presented. You will help them find common ground and propose a resolution that ends their conflict. Be concise, keeping responses under 300 words."
      [] mode = "dinner" -> "You are a decisive meal planning assistant for a picky couple that is hungry and indecisive about what they want to eat. You will analyze their preferences or discussion to recommend a specific genre of food along with a few recommended dishes. Start with a clear selection of what they should order, then justify the choice. Keep responses concise and under 100 words."
      [] mode = "entertainment" -> "You are a decisive entertainment recommender. You will analyze the entertainment preferences or discussion points from two partners to recommend a specific show or movie. Start with a clear pick and justify it. Keep responses under 150 words."
      [] OTHER -> Undefined

\* (mutant) one introduction per mode, whether the argument is live or not
INTRO_TEXT_LiveOnly(mode) ==
    CASE mode \in {"evaluator", "counselor"} ->
            [live |-> "Based on the following argument discussion:",
             separate |-> "Based on the following argument discussion:"]
      [] mode = "dinner" ->
            [live |-> "Based on the following discussion about what to eat:",
             separate |-> "Based on the following discussion about what to eat:"]
      [] mode = "entertainment" ->
            [live |-> "Based on the following discussion about entertainment:",
             separate |-> "Based on the following discussion about entertainment:"]

INTRO_TEXT(mode) ==
    CASE mode \in {"evaluator", "counselor"} ->
            [live |-> "Based on the following argument discussion:",
             separate |-> "Based on their perspectives on the issue:"]
      [] mode = "dinner" ->
            [live |-> "Based on the following discussion about what to eat:",
             separate |-> "Based on their food preferences:"]
      [] mode = "entertainment" ->
            [live |-> "Based on the following discussion about entertainment:",
             separate |-> "Based on their entertainment preferences:"]

\* switch (mode) { ... }: the required output section
FormatSection(mode) ==
    CASE mode = "evaluator" ->
            "\n**FORMAT**:\n- **WINNER**: [Name of the winner]\n- **WHY**: 2-3 bullet points explaining why they are right"
      [] mode = "counselor" ->
            "\n**FORMAT**:\n- **KEY INSIGHTS**: 2-3 bullet points summarizing the conflict\n- **RESOLUTION**: Specific advice to resolve the conflict"
      [] mode = "dinner" ->
            "\n**FORMAT**:\n- **VERDICT**: 'You should eat [specific recommendation]'\n- **WHY**: 2-3 bullet points explaining the choice\n- **ALTERNATIVES**: 1-2 backup options"
      [] mode = "entertainment" ->
            "\n**FORMAT**:\n- **VERDICT**: 'Watch [specific show/movie]'\n- **WHY**: 2-3 bullet points justifying the pick\n- **ALTERNATIVES**: 1-2 backup recommendations"
      [] OTHER -> ""

\* (mutant) the line of partner 2 is built from the text whatever it is
getUserPrompt_NoPlaceholder(mode, partner1Name, partner2Name, partner1Text, partner2Text, isLiveArgument) ==
    LET intro == IF isLiveArgument THEN INTRO_TEXT(mode).live ELSE INTRO_TEXT(mode).separate
        partner2Statement == "- " \o ToStr(partner2Name) \o ": " \o ToStr(partner2Text)
        analysisText ==
            "- " \o ToStr(partner1Name) \o ": " \o ToStr(partner1Text) \o "\n" \o partner2Statement
    IN  intro \o "\n" \o analysisText \o "\n" \o FormatSection(mode)

\* getUserPrompt, for a mode of INTRO_TEXT (any other mode throws a TypeError)
getUserPrompt(mode, partner1Name, partner2Name, partner1Text, partner2Text, isLiveArgument) ==
    LET intro == IF isLiveArgument THEN INTRO_TEXT(mode).live ELSE INTRO_TEXT(mode).separate
        partner2Statement ==
            IF Truthy(partner2Text)
            THEN "- " \o ToStr(partner2Name) \o ": " \o partner2Text
            ELSE "- " \o ToStr(partner2Name) \o ": No input provided"
        analysisText ==
            "- " \o ToStr(partner1Name) \o ": " \o ToStr(partner1Text) \o "\n" \o partner2Statement
    IN  intro \o "\n" \o analysisText \o "\n" \o FormatSection(mode)

\* mode === 'counselor' ? 0.7 : 0.3
Temperature(mode) == IF mode = "counselor" THEN "0.7" ELSE "0.3"

\* JSON.parse(s) succeeds: the texts handed over are objects or no JSON at all
JsonParses(s) == Len(s) >= 2 /\ SubSeq(s, 1, 1) = "{" /\ SubSeq(s, Len(s), Len(s)) = "}"

\* JSON.parse(s).text, for an object whose first property is text
JsonTextOf(s) ==
    LET prefix == "{\"text\":\""
        n == Len(prefix)
    IN  IF Len(s) > n /\ SubSeq(s, 1, n) = prefix
        THEN LET quotes == {k \in (n + 1)..Len(s) : SubSeq(s, k, k) = "\""}
                 q == CHOOSE k \in quotes : \A j \in quotes : k <= j
             IN  SubSeq(s, n + 1, q - 1)
        ELSE Undefined

\* JSON.stringify({verdict, timestamp})
StringifyAnalysis(verdict, timestamp) ==
    "{\"verdict\":\"" \o verdict \o "\",\"timestamp\":\"" \o timestamp \o "\"}"

GenericAnalysisError == "Analysis failed. Please try again."

\* The text deltas a stream can yield, and the streams of at most MaxChunks
Chunks == {"", "VERDICT: ", "Thai"}
ChunkSeqs == UNION {[1..n -> Chunks] : n \in 0..MaxChunks}

\* The analysis calls: one per request
NumRequests == 2
Requests == 1..NumRequests

\* The locals of an analysis call that has not started
AIdle ==
    [pc |-> "idle", fn |-> Undefined, args |-> [fn |-> Undefined],
     mode |-> Undefined, isLiveArgument |-> FALSE,
     systemPrompt |-> Undefined, userPrompt |-> Undefined, temperature |-> Undefined,
     chunks |-> <<>>, streamFails |-> FALSE, read |-> 0, fullResponse |-> "",
     onCompleteCalls |-> <<>>, cbError |-> Undefined,
     result |-> Undefined, error |-> Undefined, cause |-> Undefined]

\* (mutant) the catch block rethrows what it caught
AThrow_Rethrow(a, cause) ==
    [a EXCEPT !.pc = "thrown", !.error = cause, !.cause = cause]

\* catch (error) { console.error(...); throw new Error('Analysis failed. Please try again.') }
AThrow(a, cause) ==
    [a EXCEPT !.pc = "thrown", !.error = GenericAnalysisError, !.cause = cause]

\* (mutant) each delta replaces the text so far
Accumulate_Overwrite(fullResponse, delta) == delta

\* fullResponse += delta
Accumulate(fullResponse, delta) == fullResponse \o delta

\* The arguments of one call: analyzeConflict takes the two serialized
\* transcriptions, createAnalysisStream the two texts.
AnalysisInputs ==
    [fn : {"analyzeConflict"}, mode : Modes, isLiveArgument : BOOLEAN,
     partner1Name : {"Alice"}, partner2Name : {"Bob"},
     partner1Text : {"{\"text\":\"hello\"}", "not json"},
     partner2Text : {Null, "", "{\"text\":\"hi\"}", "{\"segments\":[]}"}]
    \cup
    [fn : {"createAnalysisStream"}, mode : Modes, isLiveArgument : BOOLEAN,
     partner1Name : {"Alice"}, partner2Name : {"Bob"},
     partner1Text : {"I like Italian food"},
     partner2Text : {Null, "", "I prefer Thai food"}]

\* The call, up to await streamText(...)
AStart(a, in) ==
    LET b == [a EXCEPT !.fn = in.fn, !.args = in, !.mode = in.mode,
                       !.isLiveArgument = in.isLiveArgument]
        parsed == in.fn = "analyzeConflict"
        p1Fails == parsed /\ ~JsonParses(in.partner1Text)
        p2Fails == parsed /\ Truthy(in.partner2Text) /\ ~JsonParses(in.partner2Text)
        p1 == IF parsed THEN JsonTextOf(in.partner1Text) ELSE in.partner1Text
        \* partner2Data?.text || null
        p2 == IF parsed
              THEN (IF Truthy(in.partner2Text)
                    THEN OrElse(JsonTextOf(in.partner2Text), Null) ELSE Null)
              ELSE in.partner2Text
    IN  IF p1Fails \/ p2Fails THEN AThrow(b, SyntaxErrorMsg(in.partner1Text))
        ELSE IF in.mode \notin Modes
        THEN AThrow(b, "Cannot read properties of undefined (reading 'separate')")
        ELSE [b EXCEPT !.systemPrompt = SYSTEM_PROMPTS(in.mode),
                       !.userPrompt = getUserPrompt(in.mode, in.partner1Name, in.partner2Name,
                                                    p1, p2, in.isLiveArgument),
                       !.temperature = Temperature(in.mode),
                       !.pc = "streamText"]

A_Call(k, in) ==
    /\ an[k].pc = "idle"
    /\ an' = [an EXCEPT ![k] = AStart(an[k], in)]
    /\ UNCHANGED <<now, files, pending, tr, storeVars, serverVars>>

\* await streamText(...): it throws, or gives one of the text streams, which
\* ends well or (failures) by throwing
StreamTextDone(k, streams, failures) ==
    /\ an[k].pc = "streamText"
    /\ \/ an' = [an EXCEPT ![k] = AThrow(an[k], "API error during analysis")]
       \/ \E chunks \in streams, fails \in failures :
            an' = [an EXCEPT ![k] = [an[k] EXCEPT !.chunks = chunks, !.streamFails = fails,
                                                  !.pc = "stream"]]
    /\ UNCHANGED <<now, files, pending, tr, storeVars, serverVars>>

A_StreamTextDone(k) == StreamTextDone(k, ChunkSeqs, BOOLEAN)

\* for await (const delta of result.textStream) fullResponse += delta
A_NextChunk(k) ==
    /\ an[k].pc = "stream"
    /\ an[k].read < Len(an[k].chunks)
    /\ an' = [an EXCEPT ![k] =
                [an[k] EXCEPT !.read = @ + 1,
                              !.fullResponse = Accumulate(@, an[k].chunks[an[k].read + 1])]]
    /\ UNCHANGED <<now, files, pending, tr, storeVars, serverVars>>

\* The stream ends: it throws, or the loop is left. analyzeConflict checks for
\* an empty response and returns the envelope; createAnalysisStream builds
\* the envelope and calls onComplete with it.
AStreamEnd(a, t) ==
    IF a.streamFails THEN AThrow(a, "Streaming error")
    ELSE IF a.fn = "analyzeConflict"
    THEN IF ~Truthy(a.fullResponse)
         THEN AThrow(a, "Analysis failed - empty response from AI")
         ELSE [a EXCEPT !.pc = "returned",
                        !.result = StringifyAnalysis(a.fullResponse, ToISOString(t))]
    ELSE [a EXCEPT !.pc = "onComplete",
                   !.onCompleteCalls =
                        Append(@, StringifyAnalysis(a.fullResponse, ToISOString(t)))]

A_StreamEnd(k) ==
    /\ an[k].pc = "stream"
    /\ an[k].read = Len(an[k].chunks)
    /\ \E t \in Later :
         /\ now' = t
         /\ an' = [an EXCEPT ![k] = AStreamEnd(an[k], t)]
    /\ UNCHANGED <<files, pending, tr, storeVars, serverVars>>

\* (mutant) the callback is awaited outside the try block
AfterOnComplete_Uncaught(a, rejection) ==
    IF Truthy(rejection)
    THEN [a EXCEPT !.pc = "thrown", !.error = rejection, !.cause = rejection,
                   !.cbError = rejection]
    ELSE [a EXCEPT !.pc = "returned", !.result = a.fullResponse]

\* await onComplete(finalResponse); return { aiResponse: fullResponse }, the
\* callback having resolved (rejection is null) or rejected
AfterOnComplete(a, rejection) ==
    IF Truthy(rejection)
    THEN AThrow([a EXCEPT !.cbError = rejection], rejection)
    ELSE [a EXCEPT !.pc = "returned", !.result = a.fullResponse]

\* The callback of a direct caller settles.
A_OnCompleteSettled(k, rejection) ==
    /\ an[k].pc = "onComplete"
    /\ an' = [an EXCEPT ![k] = AfterOnComplete(an[k], rejection)]
    /\ UNCHANGED <<now, files, pending, tr, storeVars, serverVars>>

-----------------------------------------------------------------------------
(* The session store: MemStorage *)

\* What callers pass to createSession: a plain InsertSession, one without
\* isLiveArgument, and a whole request body carrying fields of its own.
StoreInputs == {
    [partner1Name |-> "Alice", partner2Name |-> "Bob", partner1Audio |-> "QUJD",
     partner2Audio |-> "QUJD", mode |-> "dinner", isLiveArgument |-> False],
    [partner1Name |-> "Alice", partner2Name |-> "Bob", partner1Audio |-> "QUJD",
     partner2Audio |-> "QUJD", mode |-> "counselor"],
    [partner1Name |-> "Alice", partner2Name |-> "Bob", partner1Audio |-> "QUJD",
     partner2Audio |-> "", mode |-> "evaluator", isLiveArgument |-> True,
     email |-> "sub@x", id |-> 7, active |-> False, aiResponse |-> "forged",
     transcriptionData |-> "forged"] }

\* (mutant) the input is spread last, over the fields the store sets
MemCreate_SpreadLast(ss, cid, insertSession) ==
    LET session == insertSession
                   @@ [id |-> cid, active |-> True, aiResponse |-> Null,
                       transcriptionData |-> Null,
                       isLiveArgument |-> Coalesce(Field(insertSession, "isLiveArgument"), Null)]
    IN  [sessions |-> MapSet(ss, cid, session), currentId |-> cid + 1, session |-> session]

\* (mutant) the id counter advances by two
MemCreate_StepTwo(ss, cid, insertSession) ==
    LET session == [id |-> cid, active |-> True, aiResponse |-> Null,
                    transcriptionData |-> Null,
                    isLiveArgument |-> Coalesce(Field(insertSession, "isLiveArgument"), Null)]
                   @@ insertSession
    IN  [sessions |-> MapSet(ss, cid, session), currentId |-> cid + 2, session |-> session]

\* (mutant) the id counter is read and not advanced
MemCreate_SameId(ss, cid, insertSession) ==
    LET session == [id |-> cid, active |-> True, aiResponse |-> Null,
                    transcriptionData |-> Null,
                    isLiveArgument |-> Coalesce(Field(insertSession, "isLiveArgument"), Null)]
                   @@ insertSession
    IN  [sessions |-> MapSet(ss, cid, session), currentId |-> cid, session |-> session]

\* createSession(insertSession) on the map ss and the counter cid: the object
\* spread first, the fields the store sets after it
MemCreate(ss, cid, insertSession) ==
    LET id == cid
        session == [id |-> id, active |-> True, aiResponse |-> Null,
                    transcriptionData |-> Null,
                    isLiveArgument |-> Coalesce(Field(insertSession, "isLiveArgument"), Null)]
                   @@ insertSession
    IN  [sessions |-> MapSet(ss, id, session), currentId |-> cid + 1, session |-> session]

\* this.sessions.has(id), and getSession(id): this.sessions.get(id)
MemHas(ss, id) == id \in DOMAIN ss
MemGet(ss, id) == IF MemHas(ss, id) THEN ss[id] ELSE Undefined

\* (mutant) an unknown id is written instead of refused
MemUpdate_Upsert(ss, id, aiResponse) ==
    [error |-> Null, fresh |-> TRUE,
     sessions |-> MapSet(ss, id, IF MemHas(ss, id) THEN [ss[id] EXCEPT !.aiResponse = aiResponse]
                                 ELSE [id |-> id, aiResponse |-> aiResponse])]

\* (mutant) the session of the map is written in place: session.aiResponse = aiResponse
MemUpdate_InPlace(ss, id, aiResponse) ==
    IF ~MemHas(ss, id)
    THEN [error |-> "Session not found", fresh |-> FALSE, sessions |-> ss]
    ELSE [error |-> Null, fresh |-> FALSE,
          sessions |-> MapSet(ss, id, [ss[id] EXCEPT !.aiResponse = aiResponse])]

\* updateSessionResponse(id, aiResponse): the error thrown, or null, and the
\* map after. fresh: the entry set is a new object, { ...session, aiResponse },
\* and not the object that was in the map.
MemUpdate(ss, id, aiResponse) ==
    IF ~MemHas(ss, id)
    THEN [error |-> "Session not found", fresh |-> FALSE, sessions |-> ss]
    ELSE [error |-> Null, fresh |-> TRUE,
          sessions |-> MapSet(ss, id, [ss[id] EXCEPT !.aiResponse = aiResponse])]

\* What callers hold after createSession has returned session: the object
\* created, which is the one in the map
HeldAfterCreate(h, session) ==
    MapSet(h, session.id, [created |-> session, inMap |-> TRUE])

\* What callers hold after updateSessionResponse(id, ...) has ended with out.
\* A new object in the map leaves the object createSession returned as it
\* was; a write to the object in the map shows in it while it is that object.
HeldAfterUpdate(h, id, out) ==
    IF out.error # Null \/ id \notin DOMAIN h THEN h
    ELSE IF out.fresh THEN [h EXCEPT ![id].inMap = FALSE]
    ELSE IF h[id].inMap THEN [h EXCEPT ![id].created = out.sessions[id]]
    ELSE h

\* The ids and texts direct callers pass
StoreIds == 0..(MaxSessions + 1)
StoreTexts == {"", "first", "second"}

\* storage.createSession(input), called directly
S_Create(input) ==
    /\ currentId <= MaxSessions
    /\ LET out == MemCreate(sessions, currentId, input)
       IN  /\ sessions' = out.sessions
           /\ currentId' = out.currentId
           /\ lastOp' = [op |-> "create", id |-> out.session.id, text |-> Null,
                         error |-> Null, found |-> TRUE]
           /\ held' = HeldAfterCreate(held, out.session)
    /\ UNCHANGED <<now, files, pending, tr, an, serverVars>>

\* storage.getSession(id), called directly
S_Get(id) ==
    /\ lastOp' = [op |-> "get", id |-> id, text |-> Null, error |-> Null,
                  found |-> MemHas(sessions, id)]
    /\ UNCHANGED <<now, files, pending, tr, an, sessions, currentId, held, serverVars>>

\* storage.updateSessionResponse(id, text), called directly
S_Update(id, text) ==
    /\ LET out == MemUpdate(sessions, id, text)
       IN  /\ sessions' = out.sessions
           /\ lastOp' = [op |-> "update", id |-> id, text |-> text,
                         error |-> out.error, found |-> out.error = Null]
           /\ held' = HeldAfterUpdate(held, id, out)
    /\ UNCHANGED <<now, files, pending, tr, an, currentId, serverVars>>

-----------------------------------------------------------------------------
(* The subscriptions table and validateSubscription *)

\* The rows at start: one subscription, which ends at 0. expiresAt is <<>>
\* for null and <<t>> for the date t.
InitialSubscriptions ==
    (1 :> [id |-> 1, email |-> "sub@x", active |-> TRUE, expiresAt |-> <<0>>])

\* select().from(subscriptions).where(and(eq(email, email), eq(active, true)))
ActiveRows(table, email) ==
    {id \in DOMAIN table : table[id].email = email /\ table[id].active}

\* (mutant) a subscription that ends now counts as expired
IsExpired_Inclusive(row, t) == row.expiresAt # <<>> /\ row.expiresAt[1] <= t

\* subscription.expiresAt && new Date(subscription.expiresAt) < new Date(), at time t
IsExpired(row, t) == row.expiresAt # <<>> /\ row.expiresAt[1] < t

\* (mutant) the update flips the flag
Deactivate_Toggle(table, id) == [table EXCEPT ![id].active = ~@]

\* update(subscriptions).set({ active: false }).where(eq(subscriptions.id, id))
Deactivate(table, id) == [table EXCEPT ![id].active = FALSE]

-----------------------------------------------------------------------------
(* The HTTP handler: fetch *)

\* The bodies posted to /api/sessions: one without an email, in live mode
\* and with a second recording all the same; one of the subscriber, carrying
\* fields of a Session of its own; one without an email and without the
\* second recording.
PostBodies == {
    [partner1Name |-> "Alice", partner2Name |-> "Bob", partner1Audio |-> "QUJD",
     partner2Audio |-> "QUJD", mode |-> "counselor", isLiveArgument |-> True],
    [partner1Name |-> "Alice", partner2Name |-> "Bob", partner1Audio |-> "QUJD",
     partner2Audio |-> "", mode |-> "dinner", isLiveArgument |-> False],
    [partner1Name |-> "Alice", partner2Name |-> "Bob", partner1Audio |-> "QUJD",
     partner2Audio |-> "QUJD", mode |-> "dinner", email |-> "sub@x",
     id |-> 7, aiResponse |-> "forged"] }

\* The ids asked for by GET /api/sessions/:id
GetIds == {1}

\* What a transcribeAudio call of the handler ends with: the serialized
\* result it returns, or the error it throws
TranscribeOutcomes == {
    [ok |-> TRUE, value |-> StringifyTranscription("I like Italian food", Undefined)],
    [ok |-> FALSE, value |-> TooShortMsg] }

\* The text streams the endpoint gives the handler's analysis, all of which
\* end well (a call that fails does so at streamText)
ServerStreams == {<<"Thai">>}

\* The locals of a request that has not arrived
RIdle ==
    [pc |-> "idle", route |-> Undefined, data |-> [email |-> Undefined],
     partner1Transcription |-> Undefined, partner2Transcription |-> Null,
     subscriptionId |-> 0, sessionId |-> 0, cbRejection |-> Null,
     status |-> 0, json |-> FALSE, body |-> [pending |-> True]]

\* return Response.json(body, { status, headers: responseHeaders }): the
\* handler's locals are gone, the response stays
RespondJson(q, status, body) ==
    [RIdle EXCEPT !.pc = "responded", !.route = q.route, !.status = status,
                  !.json = TRUE, !.body = body]

\* return new Response(text, { status })
RespondText(q, status, text) ==
    [RIdle EXCEPT !.pc = "responded", !.route = q.route, !.status = status,
                  !.json = FALSE, !.body = [raw |-> text]]

\* (mutant) the gate lets the request through
SubscriptionRequired_Bypass(q) == [q EXCEPT !.pc = "transcribe1"]

SubscriptionRequired(q) == RespondJson(q, 402, [error |-> "Subscription required"])

\* catch (error) of the processing block: error.message || 'Failed to process audio'
ProcessingError(q, message) ==
    RespondJson(q, 500, [error |-> OrElse(message, "Failed to process audio")])

\* Requests are numbered in their order of arrival.
Arrives(r) == req[r].pc = "idle" /\ \A s \in Requests : s < r => req[s].pc # "idle"

\* POST /api/sessions, up to the first await after the body is read: the
\* development override, the email check, the subscription query or the
\* first transcription started
H_Post(r, data) ==
    /\ Arrives(r)
    /\ LET q == [req[r] EXCEPT !.route = "POST /api/sessions", !.data = data]
       IN  req' = [req EXCEPT ![r] =
                IF ~isDevelopment
                THEN IF ~Truthy(Field(data, "email"))
                     THEN SubscriptionRequired(q)
                     ELSE [q EXCEPT !.pc = "select"]
                ELSE [q EXCEPT !.pc = "transcribe1"]]
    /\ UNCHANGED <<now, files, pending, tr, an, storeVars, subs, isDevelopment>>

\* validateSubscription: the select is answered. No active row: false, 402.
\* A row that has expired: the update is sent. Otherwise true, and the first
\* transcription starts.
H_SelectDone(r) ==
    /\ req[r].pc = "select"
    /\ LET rows == ActiveRows(subs, req[r].data.email)
       IN  IF rows = {}
           THEN /\ req' = [req EXCEPT ![r] = SubscriptionRequired(req[r])]
                /\ now' = now
           ELSE \E id \in rows :
                  /\ now' = now
                  /\ req' = [req EXCEPT ![r] =
                        [req[r] EXCEPT !.subscriptionId = id,
                                       !.pc = IF IsExpired(subs[id], now)
                                              THEN "expire" ELSE "transcribe1"]]
    /\ UNCHANGED <<files, pending, tr, an, storeVars, subs, isDevelopment>>

\* validateSubscription: the update is done; return false, 402
H_ExpireDone(r) ==
    /\ req[r].pc = "expire"
    /\ subs' = Deactivate(subs, req[r].subscriptionId)
    /\ req' = [req EXCEPT ![r] = SubscriptionRequired(req[r])]
    /\ UNCHANGED <<now, files, pending, tr, an, storeVars, isDevelopment>>

AllTranscribeOutcomes ==
    TranscribeOutcomes \cup {[ok |-> FALSE, value |-> "No audio data provided"]}

\* What a transcribeAudio call on this audio can end with
TranscribeOutcomesFor(audio) ==
    IF ~Truthy(audio)
    THEN {[ok |-> FALSE, value |-> "No audio data provided"]}
    ELSE TranscribeOutcomes

\* (mutant) the second recording is transcribed in live mode too
NeedsSecondTranscription_IgnoresLive(data) == Truthy(Field(data, "partner2Audio"))

\* !data.isLiveArgument && data.partner2Audio
NeedsSecondTranscription(data) ==
    ~Truthy(Field(data, "isLiveArgument")) /\ Truthy(Field(data, "partner2Audio"))

\* storage.createSession(data), whose body runs when it is called
CreateSession(r, q) ==
    LET out == MemCreate(sessions, currentId, q.data)
    IN  /\ sessions' = out.sessions
        /\ currentId' = out.currentId
        /\ held' = HeldAfterCreate(held, out.session)
        /\ req' = [req EXCEPT ![r] = [q EXCEPT !.sessionId = out.session.id,
                                               !.pc = "created"]]

\* await transcribeAudio(data.partner1Audio) settles
H_Transcribe1Done(r, out) ==
    /\ req[r].pc = "transcribe1"
    /\ out \in TranscribeOutcomesFor(Field(req[r].data, "partner1Audio"))
    /\ IF ~out.ok
       THEN /\ req' = [req EXCEPT ![r] = ProcessingError(req[r], out.value)]
            /\ UNCHANGED <<sessions, currentId, held>>
       ELSE LET q == [req[r] EXCEPT !.partner1Transcription = out.value]
            IN  IF NeedsSecondTranscription(q.data)
                THEN /\ req' = [req EXCEPT ![r] = [q EXCEPT !.pc = "transcribe2"]]
                     /\ UNCHANGED <<sessions, currentId, held>>
                ELSE CreateSession(r, q)
    /\ UNCHANGED <<now, files, pending, tr, an, lastOp, subs, isDevelopment>>

\* (mutant) the session is created while the second transcription is awaited
H_Transcribe2Done_CreatesFirst(r, out) ==
    /\ req[r].pc = "transcribe2"
    /\ out \in TranscribeOutcomesFor(Field(req[r].data, "partner2Audio"))
    /\ LET m == MemCreate(sessions, currentId, req[r].data)
       IN  /\ sessions' = m.sessions
           /\ currentId' = m.currentId
           /\ held' = HeldAfterCreate(held, m.session)
           /\ req' = [req EXCEPT ![r] =
                        IF ~out.ok THEN ProcessingError(req[r], out.value)
                        ELSE [req[r] EXCEPT !.partner2Transcription = out.value,
                                            !.sessionId = m.session.id,
                                            !.pc = "created"]]
    /\ UNCHANGED <<now, files, pending, tr, an, lastOp, subs, isDevelopment>>

\* await transcribeAudio(data.partner2Audio) settles
H_Transcribe2Done(r, out) ==
    /\ req[r].pc = "transcribe2"
    /\ out \in TranscribeOutcomesFor(Field(req[r].data, "partner2Audio"))
    /\ IF ~out.ok
       THEN /\ req' = [req EXCEPT ![r] = ProcessingError(req[r], out.value)]
            /\ UNCHANGED <<sessions, currentId, held>>
       ELSE CreateSession(r, [req[r] EXCEPT !.partner2Transcription = out.value])
    /\ UNCHANGED <<now, files, pending, tr, an, lastOp, subs, isDevelopment>>

\* await storage.createSession(data) resumes: createAnalysisStream is called
\* and runs up to await streamText(...)
H_SessionCreated(r) ==
    /\ req[r].pc = "created"
    /\ an' = [an EXCEPT ![r] =
                AStart(an[r], [fn |-> "createAnalysisStream",
                               mode |-> Field(req[r].data, "mode"),
                               isLiveArgument |-> Truthy(Field(req[r].data, "isLiveArgument")),
                               partner1Name |-> Field(req[r].data, "partner1Name"),
                               partner2Name |-> Field(req[r].data, "partner2Name"),
                               partner1Text |-> req[r].partner1Transcription,
                               partner2Text |-> req[r].partner2Transcription])]
    /\ req' = [req EXCEPT ![r].pc = "analysis"]
    /\ UNCHANGED <<now, files, pending, tr, storeVars, subs, isDevelopment>>

\* await streamText(...) of the handler's analysis settles
H_StreamTextDone(r) ==
    /\ req[r].pc = "analysis"
    /\ StreamTextDone(r, ServerStreams, {FALSE})

\* (mutant) the handler's callback leaves the store alone
H_StreamEnd_NoStore(r) ==
    /\ req[r].pc = "analysis"
    /\ an[r].pc = "stream"
    /\ an[r].read = Len(an[r].chunks)
    /\ \E t \in Later :
         /\ now' = t
         /\ an' = [an EXCEPT ![r] = AStreamEnd(an[r], t)]
    /\ UNCHANGED <<files, pending, tr, storeVars, serverVars>>

\* The stream of the handler's analysis ends. When onComplete is called, the
\* handler's callback calls storage.updateSessionResponse(session.id,
\* response), whose body runs at once.
H_StreamEnd(r) ==
    /\ req[r].pc = "analysis"
    /\ an[r].pc = "stream"
    /\ an[r].read = Len(an[r].chunks)
    /\ \E t \in Later :
         LET a == AStreamEnd(an[r], t)
         IN  /\ now' = t
             /\ an' = [an EXCEPT ![r] = a]
             /\ IF a.pc = "onComplete"
                THEN LET response == a.onCompleteCalls[Len(a.onCompleteCalls)]
                         out == MemUpdate(sessions, req[r].sessionId, response)
                     IN  /\ sessions' = out.sessions
                         /\ held' = HeldAfterUpdate(held, req[r].sessionId, out)
                         /\ req' = [req EXCEPT ![r].cbRejection = out.error]
                ELSE UNCHANGED <<sessions, held, req>>
    /\ UNCHANGED <<files, pending, tr, currentId, lastOp, subs, isDevelopment>>

\* await onComplete(finalResponse) settles with what the callback ended with
H_OnCompleteSettled(r) ==
    /\ req[r].pc = "analysis"
    /\ an[r].pc = "onComplete"
    /\ an' = [an EXCEPT ![r] = AfterOnComplete(an[r], req[r].cbRejection)]
    /\ UNCHANGED <<now, files, pending, tr, storeVars, serverVars>>

\* await createAnalysisStream(...) settles: the 200 answer, or the catch
\* block. The call is over.
H_AnalysisDone(r) ==
    /\ req[r].pc = "analysis"
    /\ an[r].pc \in {"returned", "thrown"}
    /\ an' = [an EXCEPT ![r] = AIdle]
    /\ req' = [req EXCEPT ![r] =
                IF an[r].pc = "returned"
                THEN RespondJson(req[r], 200, [aiResponse |-> an[r].result,
                                               sessionId |-> req[r].sessionId])
                ELSE ProcessingError(req[r], an[r].error)]
    /\ UNCHANGED <<now, files, pending, tr, storeVars, subs, isDevelopment>>

\* GET /api/sessions/:id
H_GetSession(r, id) ==
    /\ Arrives(r)
    /\ LET q == [req[r] EXCEPT !.route = "GET /api/sessions/:id"]
       IN  req' = [req EXCEPT ![r] =
                IF ~MemHas(sessions, id)
                THEN RespondJson(q, 404, [error |-> "Session not found"])
                ELSE RespondJson(q, 200, MemGet(sessions, id))]
    /\ UNCHANGED <<now, files, pending, tr, an, storeVars, subs, isDevelopment>>

\* Any other method and path: return new Response("Not Found", { status: 404 })
H_NotFound(r) ==
    /\ Arrives(r)
    /\ req' = [req EXCEPT ![r] = RespondText([req[r] EXCEPT !.route = "other"], 404, "Not Found")]
    /\ UNCHANGED <<now, files, pending, tr, an, storeVars, subs, isDevelopment>>

-----------------------------------------------------------------------------
(* The state after the modules are loaded *)

Init ==
    /\ now = 0
    /\ files = <<>>
    /\ pending = <<>>
    /\ tr = [c \in TCalls |-> TIdle]
    /\ an = [k \in Requests |-> AIdle]
    /\ sessions = <<>>
    /\ currentId = 1
    /\ lastOp = [op |-> "none", id |-> 0, text |-> Null, error |-> Null, found |-> FALSE]
    /\ held = <<>>
    /\ req = [r \in Requests |-> RIdle]
    /\ subs = InitialSubscriptions
    /\ isDevelopment \in BOOLEAN

\* One transcribeAudio call, with the file system and the endpoint around it
NextTranscribe ==
    \/ \E audio \in AudioInputs : T_Begin(1, audio)
    \/ T_WriteFileDone(1)
    \/ T_StatDone(1)
    \/ T_FfmpegDone(1)
    \/ T_WavStatDone(1)
    \/ T_FfprobeDone(1)
    \/ T_ReadFileDone(1)
    \/ \E r \in Responses : T_FetchDone(1, r)
    \/ T_SleepDone(1)
    \/ \E p \in DOMAIN pending : UnlinkDone(p)

SpecTranscribe == Init /\ [][NextTranscribe]_vars

\* Two transcribeAudio calls in flight together, as Promise.all of the legacy
\* route or two requests of the server start them, sharing the temporary
\* directory. The disk, the tools and the endpoint work: a step fails only
\* for a file that is missing, and the recordings last 0.05 s or 1.5 s.
Pair_WriteFileDone(c) == T_WriteFileDone(c) /\ tr'[c].pc = "stat"

Pair_FfmpegDone(c) ==
    T_FfmpegDone(c) /\ (tr'[c].pc = "thrown" => tr[c].tempFile \notin DOMAIN files)

Pair_FfprobeDone(c) ==
    T_FfprobeDone(c) /\ (IF tr[c].wavFile \in DOMAIN files
                          THEN tr'[c].duration \in {50, 1500}
                          ELSE tr'[c].pc = "thrown" /\ tr'[c].duration = NaN)

Pair_ReadFileDone(c) ==
    T_ReadFileDone(c) /\ (tr'[c].pc # "fetch" => tr[c].wavFile \notin DOMAIN files)

NextTranscribePair ==
    \/ \E c \in TCalls :
          \/ T_Begin(c, "QUJD")
          \/ Pair_WriteFileDone(c)
          \/ T_StatDone(c)
          \/ Pair_FfmpegDone(c)
          \/ T_WavStatDone(c)
          \/ Pair_FfprobeDone(c)
          \/ Pair_ReadFileDone(c)
          \/ T_FetchDone(c, ResponseNamed("ok"))
          \/ T_SleepDone(c)
    \/ \E p \in DOMAIN pending : UnlinkDone(p)

SpecTranscribePair == Init /\ [][NextTranscribePair]_vars

\* One call of analyzeConflict or createAnalysisStream by a direct caller,
\* with the text-generation endpoint and the caller's callback around it
NextAnalysis ==
    \/ \E in \in AnalysisInputs : A_Call(1, in)
    \/ A_StreamTextDone(1)
    \/ A_NextChunk(1)
    \/ A_StreamEnd(1)
    \/ \E rejection \in {Null, "Session not found"} : A_OnCompleteSettled(1, rejection)

SpecAnalysis == Init /\ [][NextAnalysis]_vars

\* The store alone, called directly with any arguments
NextStore ==
    \/ \E input \in StoreInputs : S_Create(input)
    \/ \E id \in StoreIds : S_Get(id)
    \/ \E id \in StoreIds, text \in StoreTexts : S_Update(id, text)

SpecStore == Init /\ [][NextStore]_vars

\* The server: requests arriving at any time, their handlers interleaved at
\* their awaits
NextServer ==
    \E r \in Requests :
        \/ \E data \in PostBodies : H_Post(r, data)
        \/ H_SelectDone(r)
        \/ H_ExpireDone(r)
        \/ \E out \in AllTranscribeOutcomes : H_Transcribe1Done(r, out)
        \/ \E out \in AllTranscribeOutcomes : H_Transcribe2Done(r, out)
        \/ H_SessionCreated(r)
        \/ H_StreamTextDone(r)
        \/ A_NextChunk(r)
        \/ H_StreamEnd(r)
        \/ H_OnCompleteSettled(r)
        \/ H_AnalysisDone(r)
        \/ \E id \in GetIds : H_GetSession(r, id)
        \/ H_NotFound(r)

SpecServer == Init /\ [][NextServer]_vars

\* The subscription gate on its own: a table with a subscription without an
\* end, one that ends at 0 and one that is not active; posts with any of
\* their emails, an unknown one or none, followed up to the gate; the clock
\* running.
GateSubscriptions ==
    (1 :> [id |-> 1, email |-> "sub@x", active |-> TRUE, expiresAt |-> <<>>])
    @@ (2 :> [id |-> 2, email |-> "old@x", active |-> TRUE, expiresAt |-> <<0>>])
    @@ (3 :> [id |-> 3, email |-> "off@x", active |-> FALSE, expiresAt |-> <<>>])

GateBodies ==
    {[partner1Name |-> "Alice", partner2Name |-> "Bob", partner1Audio |-> "QUJD",
      partner2Audio |-> "QUJD", mode |-> "dinner"]}
    \cup
    {[partner1Name |-> "Alice", partner2Name |-> "Bob", partner1Audio |-> "QUJD",
      partner2Audio |-> "QUJD", mode |-> "dinner", email |-> e] :
        e \in {"", "sub@x", "old@x", "off@x", "nobody@x"}}

InitGate ==
    /\ now = 0
    /\ files = <<>>
    /\ pending = <<>>
    /\ tr = [c \in TCalls |-> TIdle]
    /\ an = [k \in Requests |-> AIdle]
    /\ sessions = <<>>
    /\ currentId = 1
    /\ lastOp = [op |-> "none", id |-> 0, text |-> Null, error |-> Null, found |-> FALSE]
    /\ held = <<>>
    /\ req = [r \in Requests |-> RIdle]
    /\ subs = GateSubscriptions
    /\ isDevelopment \in BOOLEAN

NextGate ==
    \/ \E r \in Requests, data \in GateBodies : H_Post(r, data)
    \/ \E r \in Requests : H_SelectDone(r)
    \/ \E r \in Requests : H_ExpireDone(r)
    \/ Tick

SpecGate == InitGate /\ [][NextGate]_vars

-----------------------------------------------------------------------------
(* Claims about the transcription adapter *)

\* The responses an attempt of call c has received, in order
ResponseNames == {r.name : r \in Responses}
IsQuotaAttempt(n) == n \in ResponseNames /\ IsQuotaResponse(n)
\* An upload that was sent and failed, and not for exhausted quota
IsGenericFailure(n) ==
    n \in ResponseNames /\ ~IsQuotaResponse(n) /\ ~UploadOutcome(ResponseNamed(n)).ok
IsSuccess(n) == n \in ResponseNames /\ UploadOutcome(ResponseNamed(n)).ok

\* C1: once an upload has been answered with a quota-exhaustion response, no
\* further attempt is made (the quota response is the last attempt, and no
\* new attempt is under way), and the call ends by throwing the quota error.
C1_QuotaIsNotRetried ==
    \A c \in TCalls :
        \A k \in 1..Len(tr[c].log) :
            IsQuotaAttempt(tr[c].log[k]) =>
                /\ k = Len(tr[c].log)
                /\ tr[c].pc \notin {"readFile", "fetch", "returned"}
                /\ tr[c].netCalls <= k
                /\ tr[c].pc = "thrown" => tr[c].error = QuotaMsg

\* C2: a call that has thrown after attempts that all failed with a generic
\* error has made exactly 3 uploads and throws the error of the last one; an
\* attempt that succeeds is the last one, and the call returns its result.
C2_GenericFailuresRetryThreeTimes ==
    \A c \in TCalls :
        LET log == tr[c].log
        IN  /\ ( /\ tr[c].pc = "thrown"
                 /\ log # <<>>
                 /\ \A k \in 1..Len(log) : IsGenericFailure(log[k]) )
                => /\ tr[c].netCalls = 3
                   /\ Len(log) = 3
                   /\ tr[c].error = UploadOutcome(ResponseNamed(log[3])).value
            /\ \A k \in 1..Len(log) :
                 IsSuccess(log[k]) =>
                    /\ k = Len(log)
                    /\ tr[c].pc = "returned"
                    /\ tr[c].result = UploadOutcome(ResponseNamed(log[k])).value
                    /\ tr[c].netCalls <= k
            /\ tr[c].netCalls <= 3

\* Three generic failures in a row, then the throw.
C2_Witness ==
    /\ tr[1].pc = "thrown"
    /\ Len(tr[1].log) = 3
    /\ \A k \in 1..3 : IsGenericFailure(tr[1].log[k])

\* The paths a call has issued fs.unlink for
Unlinked(c) == {tr[c].unlinks[k] : k \in 1..Len(tr[c].unlinks)}

\* C3: a call that has returned or thrown after naming its temporary files
\* has issued the deletion of both.
C3_CleanupOnEveryExit ==
    \A c \in TCalls :
        (tr[c].pc \in {"returned", "thrown"} /\ tr[c].tempFile # Null)
            => /\ tr[c].wavFile # Null
               /\ {tr[c].tempFile, tr[c].wavFile} \subseteq Unlinked(c)

\* A call that wrote both files and returned a transcription.
C3_Witness ==
    /\ tr[1].pc = "returned"
    /\ tr[1].tempFile # Null
    /\ Len(tr[1].log) = 2

\* C4: a probed duration below 0.1 s (zero included) ends the call with the
\* duration error, and no upload was sent.
C4_TooShortFailsBeforeUpload ==
    \A c \in TCalls :
        (tr[c].duration # NaN /\ tr[c].duration < 100)
            => /\ tr[c].pc = "thrown"
               /\ Includes(tr[c].error, "audio duration")
               /\ Includes(tr[c].error, "too short")
               /\ tr[c].netCalls = 0
               /\ tr[c].log = <<>>

\* A recording of 0.05 s has been probed.
C4_Witness == tr[1].duration = 50 /\ tr[1].pc = "thrown"

-----------------------------------------------------------------------------
(* Claims about the analysis adapter *)

\* The in-order concatenation of a sequence of chunks
RECURSIVE ConcatAll(_)
ConcatAll(seq) == IF seq = <<>> THEN "" ELSE Head(seq) \o ConcatAll(Tail(seq))

Timestamps == {ToISOString(t) : t \in 0..MaxNow}

\* C5: a call whose stream has ended with an empty accumulated text neither
\* returns nor has called onComplete: it fails.
C5_EmptyResponseIsAnError ==
    \A k \in Requests :
        (an[k].pc \in {"onComplete", "returned", "thrown"} /\ an[k].fullResponse = "")
            => /\ an[k].pc = "thrown"
               /\ an[k].onCompleteCalls = <<>>

\* C6 as claimed: when the onComplete callback rejects, the call throws the
\* callback's own error.
C6_CallbackErrorPropagates ==
    \A k \in Requests :
        Truthy(an[k].cbError) => (an[k].pc = "thrown" /\ an[k].error = an[k].cbError)

\* C6 as amended: when the onComplete callback rejects, the call throws the
\* generic analysis-failed error, and the callback's error is only the
\* logged cause.
C6_CallbackErrorIsWrapped ==
    \A k \in Requests :
        Truthy(an[k].cbError) =>
            /\ an[k].pc = "thrown"
            /\ an[k].error = GenericAnalysisError
            /\ an[k].error # an[k].cbError
            /\ an[k].cause = an[k].cbError

\* The callback has rejected.
C6_Witness == an[1].pc = "thrown" /\ an[1].cbError = "Session not found"

\* C7: createAnalysisStream calls onComplete at most once, and only when the
\* stream has been read to its end without failing; the argument is the
\* envelope of the concatenation of all chunks; a call that returned has
\* called it once, and a call that failed before the callback never did.
C7_OnCompleteOnceAfterStream ==
    \A k \in Requests :
        LET a == an[k]
        IN  /\ Len(a.onCompleteCalls) <= 1
            /\ a.onCompleteCalls # <<>> =>
                 /\ a.fn = "createAnalysisStream"
                 /\ a.read = Len(a.chunks)
                 /\ ~a.streamFails
                 /\ \E ts \in Timestamps :
                      a.onCompleteCalls[1] = StringifyAnalysis(ConcatAll(a.chunks), ts)
            /\ (a.fn = "createAnalysisStream" /\ a.pc = "returned") =>
                 /\ Len(a.onCompleteCalls) = 1
                 /\ a.result = ConcatAll(a.chunks)
            /\ (a.pc = "thrown" /\ ~Truthy(a.cbError)) => a.onCompleteCalls = <<>>

\* A call that read two non-empty chunks and returned.
C7_Witness ==
    /\ an[1].fn = "createAnalysisStream"
    /\ an[1].pc = "returned"
    /\ an[1].chunks = <<"VERDICT: ", "Thai">>

\* C8: whatever a call throws carries the generic message, never the message
\* of the error that was caught.
C8_ErrorsAreGeneric ==
    \A k \in Requests :
        an[k].pc = "thrown" =>
            /\ an[k].error = GenericAnalysisError
            /\ Truthy(an[k].cause)
            /\ an[k].error # an[k].cause
            /\ ~Includes(an[k].error, an[k].cause)

\* A stream error inside analyzeConflict has been caught.
C8_Witness ==
    /\ an[1].fn = "analyzeConflict"
    /\ an[1].pc = "thrown"
    /\ an[1].cause = "Streaming error"

-----------------------------------------------------------------------------
(* Claims about the session store *)

\* C10: a direct updateSessionResponse(id, text) on an id not in the map
\* fails with the not-found error and changes neither the map nor the
\* counter; on an id in the map it succeeds, and getSession(id) then returns
\* a session of that id whose aiResponse is text.
C10_UpdateContract ==
    [][ lastOp'.op = "update" =>
          LET id == lastOp'.id
          IN  IF id \notin DOMAIN sessions
              THEN /\ lastOp'.error = "Session not found"
                   /\ sessions' = sessions
                   /\ currentId' = currentId
              ELSE /\ lastOp'.error = Null
                   /\ MemHas(sessions', id)
                   /\ MemGet(sessions', id).id = sessions[id].id
                   /\ MemGet(sessions', id).aiResponse = lastOp'.text ]_vars

\* An update of an id never created has been refused while sessions exist.
C10_Witness ==
    /\ lastOp.op = "update"
    /\ lastOp.error = "Session not found"
    /\ lastOp.id >= currentId
    /\ DOMAIN sessions # {}

-----------------------------------------------------------------------------
(* Claims about the server *)

\* C9: whatever requests the server handles and however their handlers
\* interleave, a session's aiResponse, once it is not null, keeps its value
\* in every later step (and the session stays in the map), and among the
\* analyses under way at any time no two have called the callback that
\* writes the same session, nor has one called it twice.
C9_ResponseWrittenAtMostOnce ==
    /\ [][ \A id \in DOMAIN sessions :
             sessions[id].aiResponse # Null =>
                /\ id \in DOMAIN sessions'
                /\ sessions'[id].aiResponse = sessions[id].aiResponse ]_vars
    /\ [](\A r \in Requests :
             /\ Len(an[r].onCompleteCalls) <= 1
             /\ \A s \in Requests :
                  (/\ s # r
                   /\ req[r].pc \in {"created", "analysis"}
                   /\ req[s].pc \in {"created", "analysis"})
                  => req[r].sessionId # req[s].sessionId)

\* Two requests have been answered 200, each for a session of its own, and
\* both sessions hold the response written for them.
C9_Witness ==
    \E r, s \in Requests :
        /\ r # s
        /\ req[r].status = 200 /\ req[r].route = "POST /api/sessions"
        /\ req[s].status = 200 /\ req[s].route = "POST /api/sessions"
        /\ req[r].body.sessionId # req[s].body.sessionId
        /\ sessions[req[r].body.sessionId].aiResponse # Null
        /\ sessions[req[s].body.sessionId].aiResponse # Null

\* C11: right after createSession(input), getSession of the id it returned
\* gives a record with aiResponse = null and active = true, for every input,
\* one that carries id, active, aiResponse and transcriptionData fields of
\* its own included.
C11_CreatedSessionDefaults ==
    [][ lastOp'.op = "create" =>
          /\ MemHas(sessions', lastOp'.id)
          /\ MemGet(sessions', lastOp'.id).aiResponse = Null
          /\ MemGet(sessions', lastOp'.id).active = True
          /\ MemGet(sessions', lastOp'.id).id = lastOp'.id ]_vars

\* The session created last came from the input that carries fields of a
\* Session of its own.
C11_Witness ==
    /\ lastOp.op = "create"
    /\ "email" \in DOMAIN sessions[lastOp.id]
    /\ sessions[lastOp.id].mode = "evaluator"
    /\ sessions[lastOp.id].aiResponse = Null

\* C12: every step of the server keeps the sessions it had, under their
\* ids, and a session it adds gets the id that follows the number of
\* sessions so far (1, 2, 3, ...), greater than every id in the map and
\* stored in the session itself.
C12_IdsInCreationOrder ==
    [][ /\ DOMAIN sessions \subseteq DOMAIN sessions'
        /\ \A id \in DOMAIN sessions : sessions'[id].id = sessions[id].id
        /\ \A id \in (DOMAIN sessions') \ (DOMAIN sessions) :
             /\ id = Cardinality(DOMAIN sessions) + 1
             /\ \A j \in DOMAIN sessions : j < id
             /\ sessions'[id].id = id
             /\ currentId' > id ]_vars

\* Two requests are under way at once, each with a session of its own, the
\* one that arrived later holding the smaller id.
C12_Witness ==
    \E r, s \in Requests :
        /\ r < s
        /\ req[r].pc \in {"created", "analysis"}
        /\ req[s].pc \in {"created", "analysis"}
        /\ req[s].sessionId = 1
        /\ req[r].sessionId = 2
        /\ DOMAIN sessions = {1, 2}

\* The positions of a POST handler past the subscription gate
Working == {"transcribe1", "transcribe2", "created", "analysis"}

\* C13: outside development mode a POST request without an email is
\* answered 402 at once, one whose validateSubscription call finds no valid
\* row is answered 402 (after the deactivation, when the row has expired),
\* and only a request with an email and a row that is active and not expired
\* gets past the gate; the step that answers 402 starts from before the gate
\* and touches neither the sessions, nor the id counter, nor any analysis or
\* transcription. In development mode no request is ever at the subscription
\* query or answered 402.
C13_GateBeforeWork ==
    /\ [](\A r \in Requests :
            /\ isDevelopment =>
                 req[r].pc \notin {"select", "expire"} /\ req[r].status # 402
            /\ req[r].pc \in {"select", "expire"} => Truthy(Field(req[r].data, "email"))
            /\ (~isDevelopment /\ req[r].pc \in Working) =>
                 /\ Truthy(Field(req[r].data, "email"))
                 /\ req[r].subscriptionId \in DOMAIN subs
                 /\ subs[req[r].subscriptionId].email = req[r].data.email)
    /\ [][ \A r \in Requests :
            /\ (~isDevelopment /\ req[r].pc = "idle" /\ req'[r].pc \in Working) => FALSE
            /\ (req[r].pc = "select" /\ req'[r].pc \in Working) =>
                 \E id \in DOMAIN subs :
                    /\ subs[id].email = req[r].data.email
                    /\ subs[id].active
                    /\ subs[id].expiresAt = <<>> \/ subs[id].expiresAt[1] >= now
            /\ (req[r].pc \in {"select", "expire"} /\ req'[r].pc = "responded") =>
                 req'[r].status = 402
            /\ req[r].pc = "expire" => req'[r].pc \in {"expire", "responded"}
            /\ (req'[r].status = 402 /\ req[r].status # 402) =>
                 /\ req[r].pc \in {"idle", "select", "expire"}
                 /\ ~isDevelopment
                 /\ <<sessions, currentId, an, tr>>' = <<sessions, currentId, an, tr>> ]_vars

\* Outside development mode one request has been answered 402 while another,
\* past the gate, has its session.
C13_Witness ==
    /\ ~isDevelopment
    /\ \E r, s \in Requests :
         /\ req[r].status = 402
         /\ req[s].pc = "analysis"
         /\ req[s].sessionId \in DOMAIN sessions

\* The body lacks audio it needs: the first recording, or the second one
\* when it is not a live argument
MissingAudio(data) ==
    \/ ~Truthy(Field(data, "partner1Audio"))
    \/ ~Truthy(Field(data, "isLiveArgument")) /\ ~Truthy(Field(data, "partner2Audio"))

\* C14: no POST handler gets as far as a transcription or a session with a
\* body that lacks required audio (such a request is answered 400 before).
C14_MissingAudioIsRejected ==
    \A r \in Requests : req[r].pc \in Working => ~MissingAudio(req[r].data)

\* The handler of request r is waiting for its first, its second transcription
FirstInFlight(r) == req[r].pc = "transcribe1"
SecondInFlight(r) == req[r].pc = "transcribe2"

\* C15: while the first transcription of a request that needs both is in
\* flight, the second one is in flight too.
C15_TranscriptionsRunTogether ==
    \A r \in Requests :
        (FirstInFlight(r) /\ NeedsSecondTranscription(req[r].data)) => SecondInFlight(r)

\* C16: a POST handler in live mode never waits for a second transcription:
\* when its session is created it holds the one transcription of
\* partner1Audio and null for partner 2, and the prompt of its analysis
\* carries the placeholder for partner 2.
C16_LiveModeTranscribesOnce ==
    \A r \in Requests :
        Truthy(Field(req[r].data, "isLiveArgument")) =>
            /\ req[r].pc # "transcribe2"
            /\ req[r].pc \in {"created", "analysis"} =>
                 /\ req[r].partner1Transcription \in {o.value : o \in TranscribeOutcomes}
                 /\ req[r].partner2Transcription = Null
            /\ (req[r].pc = "analysis" /\ an[r].userPrompt # Undefined) =>
                 /\ Includes(an[r].userPrompt, "- Bob: No input provided")
                 /\ Includes(an[r].userPrompt, "- Alice: " \o req[r].partner1Transcription)

\* A live request whose body has a second recording all the same is at its
\* analysis, with a prompt.
C16_Witness ==
    \E r \in Requests :
        /\ Truthy(Field(req[r].data, "isLiveArgument"))
        /\ Truthy(Field(req[r].data, "partner2Audio"))
        /\ req[r].pc = "analysis"
        /\ an[r].pc = "stream"
        /\ req[r].partner2Transcription = Null

-----------------------------------------------------------------------------
(* Claims about the subscription gate *)

\* C17: in every step each row of the subscriptions table stays, with its
\* email, and a row that is not active stays not active.
C17_ActiveOnlyTurnsFalse ==
    [][ \A id \in DOMAIN subs :
          /\ id \in DOMAIN subs'
          /\ subs'[id].email = subs[id].email
          /\ ~subs[id].active => ~subs'[id].active ]_vars

\* Two validations of the same email both found the row expired; the row has
\* been deactivated by one, and the other's update is still to come.
C17_Witness ==
    \E r, s \in Requests :
        /\ r # s
        /\ req[r].status = 402
        /\ req[s].pc = "expire"
        /\ ~subs[req[s].subscriptionId].active

\* The table has a row with this email that is active and, at time t, has
\* no end or an end not in the past
HasValidRow(table, email, t) ==
    \E id \in DOMAIN table :
        /\ table[id].email = email
        /\ table[id].active
        /\ table[id].expiresAt = <<>> \/ table[id].expiresAt[1] >= t

\* C18: when a validateSubscription(email) call gets the answer of its
\* query, it returns true (the handler goes on to the transcription) exactly
\* when the table has an active row of that email with no end or an end not
\* in the past; it goes on to the update exactly when the active row of that
\* email has an end in the past, and then returns false having set that
\* row's active to false; and no other step writes to the table.
C18_ValidateSubscriptionContract ==
    [][ /\ \A r \in Requests :
            /\ (req[r].pc = "select" /\ req'[r].pc # "select") =>
                 /\ req'[r].pc = "transcribe1" <=> HasValidRow(subs, req[r].data.email, now)
                 /\ req'[r].pc = "expire" <=>
                      \E id \in DOMAIN subs :
                         /\ subs[id].email = req[r].data.email
                         /\ subs[id].active
                         /\ subs[id].expiresAt # <<>>
                         /\ subs[id].expiresAt[1] < now
                         /\ req'[r].subscriptionId = id
                 /\ req'[r].pc \in {"transcribe1", "expire", "responded"}
                 /\ req'[r].pc = "responded" => req'[r].status = 402
                 /\ subs' = subs
            /\ (req[r].pc = "expire" /\ req'[r].pc # "expire") =>
                 /\ req'[r].pc = "responded" /\ req'[r].status = 402
                 /\ subs' = [subs EXCEPT ![req[r].subscriptionId].active = FALSE]
        /\ subs' # subs => \E r \in Requests : req[r].pc = "expire" /\ req'[r].pc # "expire"
      ]_vars

\* One call has returned true for the subscription that ends at 0, asked at
\* time 0; later the row was found expired and deactivated.
C18_Witness ==
    \E r, s \in Requests :
        /\ req[r].pc = "transcribe1" /\ req[r].subscriptionId = 2
        /\ req[s].status = 402
        /\ ~subs[2].active
        /\ ~isDevelopment

-----------------------------------------------------------------------------
(* Claims about the prompts *)

\* The field names the FORMAT section of a mode must carry
MandatedFields(mode) ==
    CASE mode = "dinner" -> {"VERDICT", "WHY", "ALTERNATIVES"}
      [] mode = "entertainment" -> {"VERDICT", "WHY", "ALTERNATIVES"}
      [] mode = "counselor" -> {"VERDICT", "KEY POINTS", "ADVICE"}
      [] mode = "evaluator" -> {"VERDICT", "KEY POINTS", "WINNER"}

\* The part of a prompt from its FORMAT header on ("" when it has none)
FormatPart(prompt) ==
    LET header == "**FORMAT**"
        starts == {k \in 1..Len(prompt) :
                     k + Len(header) - 1 <= Len(prompt)
                     /\ SubSeq(prompt, k, k + Len(header) - 1) = header}
    IN  IF starts = {} THEN ""
        ELSE SubSeq(prompt, CHOOSE k \in starts : \A j \in starts : k <= j, Len(prompt))

\* C19: the user prompt of every call, in each of the four modes and live or
\* not, has a FORMAT section that carries every field name mandated for the
\* mode.
C19_PromptHasMandatedFields ==
    \A k \in Requests :
        an[k].userPrompt # Undefined =>
            /\ FormatPart(an[k].userPrompt) # ""
            /\ \A f \in MandatedFields(an[k].mode) :
                 Includes(FormatPart(an[k].userPrompt), "**" \o f \o "**")

\* What can make a call fail that has nothing to do with partner 2
OtherCauses ==
    {"API error during analysis", "Streaming error",
     "Analysis failed - empty response from AI", "Session not found"}

\* C20: a call whose text for partner 2 is null or empty does not fail when
\* it starts unless partner 1's text does not parse; its prompt has, between
\* partner 1's line and the FORMAT section, the line of partner 2 with the
\* placeholder; and when it fails later, it is for the endpoint, the stream,
\* an empty response or the callback.
C20_MissingPartner2GetsPlaceholder ==
    \A k \in Requests :
        (an[k].pc # "idle" /\ ~Truthy(an[k].args.partner2Text)) =>
            /\ an[k].userPrompt = Undefined =>
                 /\ an[k].fn = "analyzeConflict"
                 /\ ~JsonParses(an[k].args.partner1Text)
            /\ an[k].userPrompt # Undefined =>
                 /\ Includes(an[k].userPrompt, "\n- Bob: No input provided\n\n**FORMAT**")
                 /\ an[k].pc = "thrown" => an[k].cause \in OtherCauses

\* A call with null or the empty string for partner 2 has returned its
\* result, its prompt carrying the placeholder.
C20_Witness ==
    /\ an[1].pc = "returned"
    /\ an[1].args.partner2Text \in {Null, ""}
    /\ an[1].result # ""
    /\ Includes(an[1].userPrompt, "- Bob: No input provided")

\* The started call that input in gives
Started(in) == AStart(AIdle, in)

\* The system prompt call k has just built (it is at streamText) is the one
\* every input of its mode gives, whatever its function, names, texts and
\* isLiveArgument
SystemPromptByModeAlone(k) ==
    an[k].pc = "streamText" =>
        \A in \in AnalysisInputs :
            in.mode = an[k].mode =>
                Started(in).systemPrompt \in {Undefined, an[k].systemPrompt}

\* The personas the tests assert, and the personas of the table
TestPersona(mode) ==
    CASE mode = "dinner" -> "meal planning assistant"
      [] mode = "entertainment" -> "entertainment recommender"
      [] mode = "counselor" -> "relationship analyst"
      [] OTHER -> ""

TablePersona(mode) ==
    CASE mode = "dinner" -> "meal planning assistant"
      [] mode = "entertainment" -> "entertainment recommender"
      [] mode = "counselor" -> "relationship counselor"
      [] mode = "evaluator" -> "debate judge"

FirstLine(prompt) ==
    LET breaks == {k \in 1..Len(prompt) : SubSeq(prompt, k, k) = "\n"}
    IN  IF breaks = {} THEN prompt
        ELSE SubSeq(prompt, 1, (CHOOSE k \in breaks : \A j \in breaks : k <= j) - 1)

\* The first line of the user prompt call k has just built (it is at
\* streamText) is the one every input of its mode and isLiveArgument gives,
\* and not the one an input of its mode and the other isLiveArgument gives
IntroByModeAndLive(k) ==
    an[k].pc = "streamText" =>
        \A in \in AnalysisInputs :
            (in.mode = an[k].mode /\ Started(in).userPrompt # Undefined) =>
                (FirstLine(Started(in).userPrompt) = FirstLine(an[k].userPrompt)
                    <=> in.isLiveArgument = an[k].isLiveArgument)

-----------------------------------------------------------------------------
(* Claims about the HTTP surface *)

ErrorStatuses == {400, 402, 404, 500}

\* C23: every response with an error status, on every route, is a JSON
\* response whose body has an error field; and a GET for a session id not in
\* the store is answered 404.
C23_ErrorsAreJson ==
    \A r \in Requests :
        /\ req[r].status \in ErrorStatuses =>
             req[r].json /\ "error" \in DOMAIN req[r].body
        /\ (req[r].pc = "responded" /\ req[r].route = "GET /api/sessions/:id"
                /\ GetIds \cap DOMAIN sessions = {}) => req[r].status = 404

-----------------------------------------------------------------------------
(* Claims about the stages of transcribeAudio *)

\* Call c has got as far as an upload attempt
AtUpload(c) == tr[c].netCalls > 0 \/ tr[c].pc \in {"readFile", "fetch", "sleep", "returned"}

\* C24: a call that has got as far as an upload attempt had non-empty
\* input, which decoded to at least one byte, and holds a numeric duration of
\* at least 0.1 s; a call with empty input has thrown without naming or
\* writing a temporary file; a call that failed at the size check, the
\* transcoding or the probe has written no later file and made no upload.
C24_UploadOnlyAfterAllStages ==
    \A c \in TCalls :
        /\ AtUpload(c) =>
             /\ Truthy(tr[c].audio)
             /\ Base64Length(tr[c].audio) > 0
             /\ tr[c].duration # NaN
             /\ tr[c].duration >= MinDurationMs
        /\ (tr[c].pc # "idle" /\ ~Truthy(tr[c].audio)) =>
             /\ tr[c].pc = "thrown" /\ tr[c].error = "No audio data provided"
             /\ tr[c].tempFile = Null /\ tr[c].wavFile = Null
             /\ files = <<>> /\ tr[c].unlinks = <<>>
        /\ (tr[c].pc = "thrown" /\ tr[c].error = "Audio file is empty") =>
             /\ tr[c].wavFile \notin DOMAIN files
             /\ tr[c].duration = NaN /\ tr[c].netCalls = 0
        /\ (tr[c].pc = "thrown" /\ Includes(tr[c].error, "Failed to convert audio format")) =>
             tr[c].duration = NaN /\ tr[c].netCalls = 0
        /\ (tr[c].pc = "thrown" /\ Includes(tr[c].error, "Failed to verify audio duration")) =>
             tr[c].netCalls = 0 /\ tr[c].log = <<>>

-----------------------------------------------------------------------------
(* Claims about the POST flow *)

\* Request r has been answered 200 on POST /api/sessions
PostSucceeded(r) ==
    /\ req[r].pc = "responded"
    /\ req[r].route = "POST /api/sessions"
    /\ req[r].status = 200

\* C25: once a POST has been answered 200 with {aiResponse, sessionId}, the
\* session of that id is in the store and its aiResponse is the serialized
\* {verdict, timestamp} envelope whose verdict is the aiResponse of the answer.
C25_StoredBeforeAnswered ==
    \A r \in Requests :
        PostSucceeded(r) =>
            /\ req[r].json
            /\ DOMAIN req[r].body = {"aiResponse", "sessionId"}
            /\ MemHas(sessions, req[r].body.sessionId)
            /\ \E t \in 0..now :
                 sessions[req[r].body.sessionId].aiResponse =
                     StringifyAnalysis(req[r].body.aiResponse, ToISOString(t))

C25_Witness ==
    \E r \in Requests :
        /\ PostSucceeded(r)
        /\ req[r].body.aiResponse = "Thai"
        /\ MemHas(sessions, req[r].body.sessionId)
        /\ sessions[req[r].body.sessionId].aiResponse # Null

-----------------------------------------------------------------------------
(* Claims about the backoff *)

\* An attempt that failed, and not for exhausted quota: the file could not be
\* read, or the upload failed with a generic error
IsNonQuotaFailure(n) == n = "readFileFailed" \/ IsGenericFailure(n)

\* 1000 * 2^(k-1)
BackoffMs(k) == 1000 * (2 ^ (k - 1))

\* C26: the k-th attempt of retryWithBackoff, when it has failed with a
\* non-quota error, is followed by a wait of 1000 * 2^(k-1) ms (1000, 2000,
\* 4000); this holds for the third and last attempt too: the last error is
\* thrown only after the wait of 4000 ms has been started and has run out.
C26_BackoffDoubles ==
    \A c \in TCalls :
        LET log == tr[c].log
            sleeps == tr[c].sleeps
        IN  /\ \A k \in 1..Len(log) :
                 IsNonQuotaFailure(log[k]) =>
                    /\ Len(sleeps) >= k
                    /\ sleeps[k] = BackoffMs(k)
            /\ tr[c].pc = "sleep" =>
                 Len(sleeps) = Len(log) /\ Len(sleeps) = tr[c].i + 1
            /\ ( /\ tr[c].pc = "thrown"
                 /\ Len(log) = MaxRetries
                 /\ \A k \in 1..Len(log) : IsNonQuotaFailure(log[k]) )
                => sleeps = <<1000, 2000, 4000>> /\ tr[c].i = MaxRetries

\* The third attempt has failed and the call is waiting 4000 ms
C26_Witness ==
    /\ tr[1].pc = "sleep"
    /\ tr[1].i = 2
    /\ tr[1].sleeps = <<1000, 2000, 4000>>
    /\ \A k \in 1..3 : IsNonQuotaFailure(tr[1].log[k])

\* The bullet of the user prompt that carries a partner's statement
StatementLine(name, text) == "- " \o ToStr(name) \o ": " \o ToStr(text) \o "\n"

\* C27: in the POST flow, the statement put into the user prompt for each
\* partner is the text field of that partner's transcription, not the
\* serialized TranscriptionResult string that transcribeAudio returned.
C27_PromptCarriesTranscribedText ==
    \A r \in Requests :
        (req[r].pc = "analysis" /\ an[r].userPrompt # Undefined) =>
            /\ Includes(an[r].userPrompt,
                        StatementLine(Field(req[r].data, "partner1Name"),
                                      JsonTextOf(req[r].partner1Transcription)))
            /\ ~Includes(an[r].userPrompt, req[r].partner1Transcription)
            /\ req[r].partner2Transcription # Null =>
                  /\ Includes(an[r].userPrompt,
                              StatementLine(Field(req[r].data, "partner2Name"),
                                            JsonTextOf(req[r].partner2Transcription)))
                  /\ ~Includes(an[r].userPrompt, req[r].partner2Transcription)

\* The handler of request r has got as far as storage.createSession: it is
\* past it, or it has answered 200, or 500 for a failed analysis
ReachedCreateSession(r) ==
    \/ req[r].pc \in {"created", "analysis"}
    \/ /\ req[r].pc = "responded"
       /\ req[r].route = "POST /api/sessions"
       /\ \/ req[r].status = 200
          \/ req[r].status = 500 /\ req[r].body.error = GenericAnalysisError

\* The POST of request r was answered 402, or 500 for a failed transcription
RejectedBeforeCreate(r) ==
    /\ req[r].pc = "responded"
    /\ req[r].route = "POST /api/sessions"
    /\ \/ req[r].status = 402
       \/ req[r].status = 500 /\ req[r].body.error \in {TooShortMsg, "No audio data provided"}

\* C28: the store holds one session for each POST that got past its
\* transcriptions, and the id counter has advanced once for each of them: a
\* POST answered 402 or failing in a transcription has added no session and
\* has not advanced the counter. A handler that has created its session
\* holds the result of every transcription it needed.
C28_NoSessionWithoutTranscriptions ==
    LET creators == {r \in Requests : ReachedCreateSession(r)}
    IN  /\ Cardinality(DOMAIN sessions) = Cardinality(creators)
        /\ currentId = 1 + Cardinality(creators)
        /\ \A r \in Requests : RejectedBeforeCreate(r) => r \notin creators
        /\ \A r \in Requests :
             req[r].pc \in {"created", "analysis"} =>
                /\ req[r].partner1Transcription # Undefined
                /\ NeedsSecondTranscription(req[r].data) =>
                      req[r].partner2Transcription # Null
                /\ MemHas(sessions, req[r].sessionId)

\* One POST has failed in a transcription, another has created its session
C28_Witness ==
    \E r, s \in Requests :
        /\ RejectedBeforeCreate(r) /\ req[r].status = 500
        /\ req[s].pc = "analysis"
        /\ DOMAIN sessions = {1} /\ currentId = 2

-----------------------------------------------------------------------------
(* Claims about concurrent transcriptions *)

\* Call c is in flight: started and not yet settled
InFlight(c) == tr[c].pc \notin {"idle", "returned", "thrown"}

\* The temporary files of call c
PathsOf(c) == {tr[c].tempFile, tr[c].wavFile} \ {Null}

\* The file the pending step of call c works on
FileInUse(c) ==
    CASE tr[c].pc \in {"stat", "ffmpeg"} -> {tr[c].tempFile}
      [] tr[c].pc \in {"wavStat", "ffprobe", "readFile"} -> {tr[c].wavFile}
      [] OTHER -> {}

\* C29: two transcribeAudio calls in flight at the same time have no
\* temporary file path in common, and the file a call in flight is working
\* on is there: no other call has deleted it.
C29_CallsShareNoTempFile ==
    /\ \A c, d \in TCalls :
         (c # d /\ InFlight(c) /\ InFlight(d)) => PathsOf(c) \cap PathsOf(d) = {}
    /\ \A c \in TCalls : FileInUse(c) \subseteq DOMAIN files

-----------------------------------------------------------------------------
(* Claims about updateSessionResponse *)

\* C30: a call updateSessionResponse(id, text) that finds the session sets
\* its aiResponse to text and changes nothing else: the session keeps its
\* other fields, the other sessions and the id counter are as before, and
\* the Session object createSession returned earlier reads as it did (the
\* map's entry is a new object). A call that does not find it changes nothing.
C30_UpdateTouchesOnlyAiResponse ==
    [][ \A id \in StoreIds, text \in StoreTexts :
          S_Update(id, text) =>
            /\ currentId' = currentId
            /\ DOMAIN sessions' = DOMAIN sessions
            /\ \A j \in DOMAIN sessions : j # id => sessions'[j] = sessions[j]
            /\ MemHas(sessions, id) =>
                  /\ sessions'[id].aiResponse = text
                  /\ DOMAIN sessions'[id] = DOMAIN sessions[id]
                  /\ \A f \in DOMAIN sessions[id] \ {"aiResponse"} :
                        sessions'[id][f] = sessions[id][f]
            /\ DOMAIN held' = DOMAIN held
            /\ \A j \in DOMAIN held : held'[j].created = held[j].created ]_vars

\* Session 1 has been updated twice next to session 2, and the object
\* createSession returned for it still has no response
C30_Witness ==
    /\ lastOp.op = "update" /\ lastOp.id = 1 /\ lastOp.error = Null
    /\ DOMAIN sessions = {1, 2}
    /\ sessions[1].aiResponse = "second"
    /\ held[1].created.aiResponse = Null
    /\ ~held[1].inMap

====
